---------------------------- MODULE Spec2Model ----------------------------
(***************************************************************************)
(* A model of the raytracing crate (src/src/*.rs).                         *)
(*                                                                         *)
(* Numbers.  Every f64 of the program is modelled as a fixed-point number  *)
(* with three decimals: the integer n stands for n / Scale.  Sums and      *)
(* differences are exact; products, quotients and square roots are rounded *)
(* toward zero to the next representable value (IEEE rounds to nearest;    *)
(* both roundings are symmetric in the sign, which is all the model uses). *)
(* f64::INFINITY is the integer Infinity, larger than every finite value   *)
(* the model computes; it is only ever compared, never computed with.      *)
(***************************************************************************)
EXTENDS Integers, Sequences, FiniteSets, TLC

\* ------------------------------------------------------------------------
\* Bounds of the model
\* ------------------------------------------------------------------------

\* Longest HittableList the model builds.
MaxObjects == 3

\* Largest depth ray_color is called with.
MaxDepth == 3

\* Most materials a scene constructs.
MaxMaterials == 2

\* Most calls of write_color on one writer.
MaxWrites == 2

\* Worker threads of the rayon pool.
NumWorkers == 2

\* Largest image_width of a rendering camera.
MaxWidth == 2

\* Largest samples_per_pixel of a rendering camera.
MaxSamples == 2

\* Most calls the owner of a Camera makes on it between renders.
MaxCalls == 2

\* ------------------------------------------------------------------------
\* f64 arithmetic
\* ------------------------------------------------------------------------

\* One unit (1.0) in fixed point.
Scale == 1000

\* f64::INFINITY; -Infinity is f64::NEG_INFINITY.
Infinity == 1000000000

\* The f64 NaN (0.0 / 0.0, inf - inf, inf * 0.0, sqrt of a negative).
NaN == -2000000000

\* A `let`: Body with its parameter bound to value.
With(value, Body(_)) == Body(value)

Abs(n) == IF n < 0 THEN -n ELSE n

IsInf(a) == a = Infinity \/ a = -Infinity

\* Integer quotient rounded toward zero (b # 0).
TruncDiv(a, b) ==
    LET q == Abs(a) \div Abs(b)
    IN  IF (a < 0) = (b < 0) THEN q ELSE -q

\* f64 comparisons: every comparison with NaN is false.
FLt(a, b) == a # NaN /\ b # NaN /\ a < b
FLe(a, b) == a # NaN /\ b # NaN /\ a <= b
FGt(a, b) == FLt(b, a)

\* f64 negation.
FNeg(a) == IF a = NaN THEN NaN ELSE -a

\* f64 sum.
FAdd(a, b) ==
    IF a = NaN \/ b = NaN THEN NaN
    ELSE IF IsInf(a) THEN (IF b = -a THEN NaN ELSE a)
    ELSE IF IsInf(b) THEN b
    ELSE a + b

\* f64 difference.
FSub(a, b) == FAdd(a, FNeg(b))

\* m * n / Scale rounded down, for 0 <= n <= m: with m = q * Scale + k it
\* is q * n + k * n / Scale.
MulMagnitudes(m, n) == (m \div Scale) * n + ((m % Scale) * n) \div Scale

\* f64 product, rounded toward zero.
FMul(a, b) ==
    IF a = NaN \/ b = NaN THEN NaN
    ELSE IF IsInf(a) \/ IsInf(b)
      THEN (IF a = 0 \/ b = 0 THEN NaN
            ELSE IF (a < 0) = (b < 0) THEN Infinity ELSE -Infinity)
    ELSE IF Abs(a) < Abs(b)
      THEN (IF (a < 0) = (b < 0) THEN MulMagnitudes(Abs(b), Abs(a))
                                 ELSE -MulMagnitudes(Abs(b), Abs(a)))
    ELSE IF (a < 0) = (b < 0) THEN MulMagnitudes(Abs(a), Abs(b))
    ELSE -MulMagnitudes(Abs(a), Abs(b))

\* f64 quotient (the sign of a zero is not modelled: every zero is +0.0).
FDiv(a, b) ==
    IF a = NaN \/ b = NaN THEN NaN
    ELSE IF IsInf(a)
      THEN (IF IsInf(b) THEN NaN
            ELSE IF (a < 0) = (b < 0) THEN Infinity ELSE -Infinity)
    ELSE IF IsInf(b) THEN 0
    ELSE IF b = 0
      THEN (IF a = 0 THEN NaN ELSE IF a > 0 THEN Infinity ELSE -Infinity)
    ELSE TruncDiv(a * Scale, b)

RECURSIVE ISqrtBetween(_, _, _)
\* The largest k in lo..hi with k * k <= n (lo * lo <= n < (hi+1) * (hi+1)).
ISqrtBetween(n, lo, hi) ==
    IF lo >= hi THEN lo
    ELSE LET mid == (lo + hi + 1) \div 2
         IN  IF mid * mid <= n THEN ISqrtBetween(n, mid, hi)
                               ELSE ISqrtBetween(n, lo, mid - 1)

\* Largest integer whose square is at most n (0 <= n < 2^31).
ISqrt(n) == ISqrtBetween(n, 0, IF n < 46340 THEN n ELSE 46340)

\* f64::sqrt.  Above 2000.0 the root keeps two decimals, as the relative
\* precision of an f64 falls with its magnitude.
FSqrt(a) ==
    IF a = NaN \/ a < 0 THEN NaN
    ELSE IF a = Infinity THEN Infinity
    ELSE IF a < 2 * Scale * Scale THEN ISqrt(a * Scale)
    ELSE ISqrt(a \div 10) * 100

\* f64::min (a NaN operand is ignored).
FMin(a, b) ==
    IF a = NaN THEN b ELSE IF b = NaN THEN a ELSE IF a < b THEN a ELSE b

\* ------------------------------------------------------------------------
\* vec3.rs
\* ------------------------------------------------------------------------

Vec3_new(e0, e1, e2) == <<e0, e1, e2>>

Vec3_default == Vec3_new(0, 0, 0)

x(v) == v[1]
y(v) == v[2]
z(v) == v[3]

dot(a, b) ==
    FAdd(FAdd(FMul(a[1], b[1]), FMul(a[2], b[2])), FMul(a[3], b[3]))

cross(a, b) ==
    Vec3_new(FSub(FMul(y(a), z(b)), FMul(z(a), y(b))),
             FSub(FMul(z(a), x(b)), FMul(x(a), z(b))),
             FSub(FMul(x(a), y(b)), FMul(y(a), x(b))))

length_squared(v) ==
    FAdd(FAdd(FMul(v[1], v[1]), FMul(v[2], v[2])), FMul(v[3], v[3]))

length(v) == FSqrt(length_squared(v))

\* impl Neg for Vec3
neg(v) == Vec3_new(FNeg(x(v)), FNeg(y(v)), FNeg(z(v)))

\* impl Add for Vec3
add(a, b) == Vec3_new(FAdd(x(a), x(b)), FAdd(y(a), y(b)), FAdd(z(a), z(b)))

\* impl Sub for Vec3
sub(a, b) == Vec3_new(FSub(x(a), x(b)), FSub(y(a), y(b)), FSub(z(a), z(b)))

\* impl Mul<f64> for Vec3 and impl Mul<Vec3> for f64
mul(v, rhs) == Vec3_new(FMul(x(v), rhs), FMul(y(v), rhs), FMul(z(v), rhs))

mul_vec_unattenuated(a, b) == b

\* impl Mul for Vec3 (componentwise)
mul_vec(a, b) == Vec3_new(FMul(x(a), x(b)), FMul(y(a), y(b)), FMul(z(a), z(b)))

\* impl Div<f64> for Vec3
div(v, rhs) == Vec3_new(FDiv(x(v), rhs), FDiv(y(v), rhs), FDiv(z(v), rhs))

\* A zero vector has length 0 and its unit vector is (NaN, NaN, NaN).
unit_vector(v) == div(v, length(v))

\* |e| < 1.0e-8 for every component: 1.0e-8 is below the model's
\* resolution, so only an exact zero is that small.
near_zero(v) == x(v) = 0 /\ y(v) = 0 /\ z(v) = 0

reflect(v, n) == sub(v, mul(n, FMul(2 * Scale, dot(v, n))))

refract(uv, n, etai_over_etat) ==
    With(FMin(FNeg(dot(uv, n)), Scale), LAMBDA cos_theta :
    With(mul(add(uv, mul(n, cos_theta)), etai_over_etat), LAMBDA r_out_perp :
    With(mul(n, FNeg(FSqrt(Abs(FSub(Scale, length_squared(r_out_perp)))))),
         LAMBDA r_out_parallel :
      add(r_out_perp, r_out_parallel))))

\* ------------------------------------------------------------------------
\* interval.rs
\* ------------------------------------------------------------------------

Interval_new(min, max) == [min |-> min, max |-> max]

contains(iv, v) == FLe(iv.min, v) /\ FLe(v, iv.max)

surrounds_inclusive(iv, v) == FLe(iv.min, v) /\ FLe(v, iv.max)

surrounds(iv, v) == FLt(iv.min, v) /\ FLt(v, iv.max)

clamp(iv, v) ==
    IF FLt(v, iv.min) THEN iv.min
    ELSE IF FGt(v, iv.max) THEN iv.max
    ELSE v

\* ------------------------------------------------------------------------
\* ray.rs
\* ------------------------------------------------------------------------

Ray_new(origin, direction) == [origin |-> origin, direction |-> direction]

Ray_default == Ray_new(Vec3_default, Vec3_default)

at(ray, t) == add(ray.origin, mul(ray.direction, t))

\* ------------------------------------------------------------------------
\* hittable.rs
\* ------------------------------------------------------------------------

\* Option<Arc<dyn Material>>::None; Some(m) is the material's index m >= 1.
NoMat == 0

\* Option<HitRecord>::None.  Some(rec) is a record with some = TRUE.
None ==
    [some |-> FALSE, t |-> 0, p |-> Vec3_default, normal |-> Vec3_default,
     front_face |-> FALSE, mat |-> NoMat]

set_face_normal_flipped(rec, ray, outward_normal) ==
    With(FLt(dot(ray.direction, outward_normal), 0), LAMBDA front_face :
      [rec EXCEPT !.front_face = front_face,
                  !.normal = IF front_face THEN neg(outward_normal)
                                           ELSE outward_normal])

set_face_normal(rec, ray, outward_normal) ==
    With(FLt(dot(ray.direction, outward_normal), 0), LAMBDA front_face :
      [rec EXCEPT !.front_face = front_face,
                  !.normal = IF front_face THEN outward_normal
                                           ELSE neg(outward_normal)])

\* ------------------------------------------------------------------------
\* sphere.rs
\* ------------------------------------------------------------------------

Sphere_new(center, radius, mat) ==
    [center |-> center, radius |-> radius, mat |-> mat]

\* The outward normal Sphere::hit hands to set_face_normal.
outward_normal_at(sphere, p) == div(sub(p, sphere.center), sphere.radius)

Sphere_record_without_material(sphere, ray, root) ==
    [some |-> TRUE, t |-> root, p |-> at(ray, root), normal |-> Vec3_default,
     front_face |-> FALSE, mat |-> NoMat]

\* The record Sphere::hit builds for an accepted root.
Sphere_record(sphere, ray, root) ==
    With(at(ray, root), LAMBDA p :
      set_face_normal([some |-> TRUE, t |-> root, p |-> p,
                       normal |-> Vec3_default, front_face |-> FALSE,
                       mat |-> sphere.mat],
                      ray, outward_normal_at(sphere, p)))

\* The quadratic of sphere.rs:87-92 for a ray and a sphere: a, h, c and the
\* discriminant h*h - a*c.
Quadratic(sphere, ray) ==
    With(sub(sphere.center, ray.origin), LAMBDA oc :
    With(length_squared(ray.direction), LAMBDA a :
    With(dot(ray.direction, oc), LAMBDA h :
    With(FSub(length_squared(oc), FMul(sphere.radius, sphere.radius)),
         LAMBDA c :
      [a |-> a, h |-> h, c |-> c,
       discriminant |-> FSub(FMul(h, h), FMul(a, c))]))))

\* (h - sqrtd) / a, the root of line 100.
SmallerRoot(sphere, ray) ==
    With(Quadratic(sphere, ray), LAMBDA q :
      FDiv(FSub(q.h, FSqrt(q.discriminant)), q.a))

\* (h + sqrtd) / a, the root of line 102.
LargerRoot(sphere, ray) ==
    With(Quadratic(sphere, ray), LAMBDA q :
      FDiv(FAdd(q.h, FSqrt(q.discriminant)), q.a))

Sphere_hit_far_first(sphere, ray, t_range) ==
    IF FLt(Quadratic(sphere, ray).discriminant, 0) THEN None
    ELSE IF surrounds(t_range, LargerRoot(sphere, ray))
      THEN Sphere_record(sphere, ray, LargerRoot(sphere, ray))
    ELSE IF surrounds(t_range, SmallerRoot(sphere, ray))
      THEN Sphere_record(sphere, ray, SmallerRoot(sphere, ray))
    ELSE None

\* Sphere::hit.  (With a zero direction a = h = 0, both roots are 0/0 = NaN,
\* which no interval surrounds.)
Sphere_hit(sphere, ray, t_range) ==
    With(sub(sphere.center, ray.origin), LAMBDA oc :
    With(length_squared(ray.direction), LAMBDA a :
    With(dot(ray.direction, oc), LAMBDA h :
    With(FSub(length_squared(oc), FMul(sphere.radius, sphere.radius)),
         LAMBDA c :
    With(FSub(FMul(h, h), FMul(a, c)), LAMBDA discriminant :
      IF FLt(discriminant, 0) THEN None
      ELSE With(FSqrt(discriminant), LAMBDA sqrtd :
           With(FDiv(FSub(h, sqrtd), a), LAMBDA root1 :
           With(FDiv(FAdd(h, sqrtd), a), LAMBDA root2 :
             IF surrounds(t_range, root1)
               THEN Sphere_record(sphere, ray, root1)
             ELSE IF surrounds(t_range, root2)
               THEN Sphere_record(sphere, ray, root2)
             ELSE None))))))))

\* ------------------------------------------------------------------------
\* hittable_list.rs: HittableList::hit
\* ------------------------------------------------------------------------

hit_body_no_narrowing(object, ray, t_range, closest, held) ==
    With(Sphere_hit(object, ray, Interval_new(t_range.min, t_range.max)),
         LAMBDA rec : IF rec.some THEN <<rec.t, rec>> ELSE <<closest, held>>)

hit_body_stale_bound(object, ray, t_range, closest, held) ==
    With(Sphere_hit(object, ray, Interval_new(t_range.min, closest)),
         LAMBDA rec : IF rec.some THEN <<closest, rec>> ELSE <<closest, held>>)

hit_body_last_wins(object, ray, t_range, closest, held) ==
    With(Sphere_hit(object, ray, t_range),
         LAMBDA rec : IF rec.some /\ FLe(rec.t, closest) THEN <<rec.t, rec>>
                      ELSE <<closest, held>>)

\* One iteration of the for loop (lines 76-79) on `object`: the new
\* <<closest_so_far, hit_record>>.
hit_body(object, ray, t_range, closest, held) ==
    With(Sphere_hit(object, ray, Interval_new(t_range.min, closest)),
         LAMBDA rec : IF rec.some THEN <<rec.t, rec>> ELSE <<closest, held>>)

\* HittableList::hit as a function of the list, the ray and the interval:
\* scan[k] is <<closest_so_far, hit_record>> after k iterations.
HittableList_hit(objs, ray, t_range) ==
    LET scan[k \in 0..Len(objs)] ==
            IF k = 0 THEN <<t_range.max, None>>
            ELSE With(scan[k - 1], LAMBDA prev :
                   hit_body(objs[k], ray, t_range, prev[1], prev[2]))
    IN  scan[Len(objs)][2]

\* ------------------------------------------------------------------------
\* lib.rs
\* ------------------------------------------------------------------------

linear_to_gamma(linear_component) ==
    IF FGt(linear_component, 0) THEN FSqrt(linear_component) ELSE 0

\* i32::MAX.
I32_MAX == 2147483647

\* `as i32` on an f64: truncation, saturating, NaN becomes 0.
as_i32(v) ==
    IF v = NaN THEN 0
    ELSE IF v = Infinity THEN I32_MAX
    ELSE IF v = -Infinity THEN -I32_MAX - 1
    ELSE TruncDiv(v, Scale)

intensity_closed == Interval_new(0, Scale)

\* write_color's local intensity.
intensity == Interval_new(0, 999)

\* rbyte, gbyte and bbyte of write_color, from one component of pixel_color.
to_byte(component) ==
    as_i32(FMul(256 * Scale, clamp(intensity, linear_to_gamma(component))))

\* Text is a sequence of one-character strings.
DigitChars == <<"0", "1", "2", "3", "4", "5", "6", "7", "8", "9">>

RECURSIVE Display(_)
\* The `{}` format of an integer.
Display(n) ==
    IF n < 0 THEN <<"-">> \o Display(-n)
    ELSE IF n < 10 THEN <<DigitChars[n + 1]>>
    ELSE Append(Display(n \div 10), DigitChars[(n % 10) + 1])

\* The str write_color formats: writeln!(str, "{} {} {}", rbyte, gbyte, bbyte).
color_line(pixel_color) ==
    Display(to_byte(x(pixel_color))) \o <<" ">> \o
    Display(to_byte(y(pixel_color))) \o <<" ">> \o
    Display(to_byte(z(pixel_color))) \o <<"\n">>

\* io::Result<usize>.
Ok(n) == [ok |-> TRUE, n |-> n]
Err == [ok |-> FALSE, n |-> 0]

\* Write::write(buf) on a writer that takes `accepted` bytes of buf; -1 is a
\* failing writer.  The writer's stream afterwards and the returned Result.
Write_write(stream, buf, accepted) ==
    IF accepted < 0 THEN [stream |-> stream, res |-> Err]
    ELSE [stream |-> stream \o SubSeq(buf, 1, accepted), res |-> Ok(accepted)]

\* write_color: one call of out.write on the formatted line.
write_color_on(stream, pixel_color, accepted) ==
    Write_write(stream, color_line(pixel_color), accepted)

\* The thread-local generator behind rand::rng(): its state is a position
\* in a cycle of values of [0, 1).
RandomTable == <<500, 250, 750, 0, 999, 600, 400>>

\* random_double() on the generator state rng: the value and the new state.
random_double(rng) ==
    [value |-> RandomTable[rng + 1], rng |-> (rng + 1) % Len(RandomTable)]

random_double_range(min, max, rng) ==
    With(random_double(rng), LAMBDA d :
      [value |-> FAdd(min, FMul(FSub(max, min), d.value)), rng |-> d.rng])

RECURSIVE random_unit_vector(_)
\* Vec3::random_unit_vector (vec3.rs); 1.0e-160 is below the model's
\* resolution, so 1.0e-160 < lensq is 0 < lensq.
random_unit_vector(rng) ==
    With(random_double_range(-Scale, Scale, rng), LAMBDA d1 :
    With(random_double_range(-Scale, Scale, d1.rng), LAMBDA d2 :
    With(random_double_range(-Scale, Scale, d2.rng), LAMBDA d3 :
    With(Vec3_new(d1.value, d2.value, d3.value), LAMBDA p :
    With(length_squared(p), LAMBDA lensq :
      IF FLt(0, lensq) /\ FLe(lensq, Scale)
        THEN [value |-> div(p, FSqrt(lensq)), rng |-> d3.rng]
        ELSE random_unit_vector(d3.rng))))))

RECURSIVE random_in_unit_disk(_)
\* Vec3::random_in_unit_disk (vec3.rs).
random_in_unit_disk(rng) ==
    With(random_double_range(-Scale, Scale, rng), LAMBDA d1 :
    With(random_double_range(-Scale, Scale, d1.rng), LAMBDA d2 :
    With(Vec3_new(d1.value, d2.value, 0), LAMBDA p :
      IF FLt(length_squared(p), Scale) THEN [value |-> p, rng |-> d2.rng]
      ELSE random_in_unit_disk(d2.rng))))

\* ------------------------------------------------------------------------
\* material.rs
\* ------------------------------------------------------------------------

Color_new(e0, e1, e2) == Vec3_new(e0, e1, e2)

Lambertian_new(albedo) ==
    [kind |-> "Lambertian", albedo |-> albedo, fuzz |-> 0,
     refraction_index |-> 0]

\* The fuzz Metal::new stores for the argument f.
Metal_fuzz(f) == IF FLt(f, Scale) THEN f ELSE Scale

Metal_new(albedo, f) ==
    [kind |-> "Metal", albedo |-> albedo, fuzz |-> Metal_fuzz(f),
     refraction_index |-> 0]

Dielectric_new(refraction_index) ==
    [kind |-> "Dielectric", albedo |-> Vec3_default, fuzz |-> 0,
     refraction_index |-> refraction_index]

\* What a call of Material::scatter leaves behind: its return value and the
\* two out-parameters.
Scattered(ok, attenuation, scattered) ==
    [ok |-> ok, attenuation |-> attenuation, scattered |-> scattered]

\* Lambertian::scatter; random_unit is the value of random_unit_vector().
Lambertian_scatter(mat, r_in, rec, random_unit) ==
    With(add(rec.normal, random_unit), LAMBDA sum :
    With(IF near_zero(sum) THEN rec.normal ELSE sum, LAMBDA scatter_direction :
      Scattered(TRUE, mat.albedo, Ray_new(rec.p, scatter_direction))))

\* Metal::scatter.
Metal_scatter(mat, r_in, rec, random_unit) ==
    With(reflect(unit_vector(r_in.direction), rec.normal), LAMBDA reflected :
    With(Ray_new(rec.p, add(reflected, mul(random_unit, mat.fuzz))),
         LAMBDA scattered :
      Scattered(FGt(dot(scattered.direction, rec.normal), 0), mat.albedo,
                scattered)))

\* f64::powf(base, 5.0).
powf5(base) == FMul(FMul(FMul(FMul(base, base), base), base), base)

\* Dielectric::reflectance.
reflectance(cosine, refraction_index) ==
    With(FDiv(FSub(Scale, refraction_index), FAdd(Scale, refraction_index)),
         LAMBDA q :
    With(FMul(q, q), LAMBDA r0 :
      FAdd(r0, FMul(FSub(Scale, r0), powf5(FSub(Scale, cosine))))))

\* Dielectric::scatter up to the choice of the direction.
Dielectric_optics(mat, r_in, rec) ==
    With(IF rec.front_face THEN FDiv(Scale, mat.refraction_index)
                           ELSE mat.refraction_index, LAMBDA ri :
    With(unit_vector(r_in.direction), LAMBDA unit_direction :
    With(FMin(FNeg(dot(unit_direction, rec.normal)), Scale), LAMBDA cos_theta :
    With(FSqrt(FSub(Scale, FMul(cos_theta, cos_theta))), LAMBDA sin_theta :
      [ri |-> ri, unit_direction |-> unit_direction, cos_theta |-> cos_theta,
       cannot_refract |-> FGt(FMul(ri, sin_theta), Scale)]))))

\* Dielectric::scatter; random is the value of random_double(), which is
\* drawn only when cannot_refract is false.
Dielectric_scatter(mat, r_in, rec, random) ==
    With(Dielectric_optics(mat, r_in, rec), LAMBDA o :
    With(IF o.cannot_refract \/ FGt(reflectance(o.cos_theta, o.ri), random)
           THEN reflect(o.unit_direction, rec.normal)
           ELSE refract(o.unit_direction, rec.normal, o.ri), LAMBDA direction :
      Scattered(TRUE, Color_new(Scale, Scale, Scale),
                Ray_new(rec.p, direction))))

\* Dynamic dispatch of Material::scatter.
scatter(mat, r_in, rec, random_unit, random) ==
    IF mat.kind = "Lambertian" THEN Lambertian_scatter(mat, r_in, rec, random_unit)
    ELSE IF mat.kind = "Metal" THEN Metal_scatter(mat, r_in, rec, random_unit)
    ELSE Dielectric_scatter(mat, r_in, rec, random)

\* Material::scatter drawing from the generator state rng: what scatter
\* leaves behind and the new generator state.
scatter_rng(mat, r_in, rec, rng) ==
    IF mat.kind = "Dielectric"
      THEN IF Dielectric_optics(mat, r_in, rec).cannot_refract
             THEN [value |-> scatter(mat, r_in, rec, Vec3_default, 0),
                   rng |-> rng]
             ELSE With(random_double(rng), LAMBDA d :
                    [value |-> scatter(mat, r_in, rec, Vec3_default, d.value),
                     rng |-> d.rng])
      ELSE With(random_unit_vector(rng), LAMBDA n :
             [value |-> scatter(mat, r_in, rec, n.value, 0), rng |-> n.rng])

\* The materials the scene spheres share.  Arc<dyn Material> number m is
\* Materials[m]; the metal is the one of Sphere::default, and the last is a
\* Lambertian whose albedo has a negative component (Lambertian::new takes
\* any Color).
Materials ==
    << Lambertian_new(Color_new(500, 500, 500)),
       Metal_new(Color_new(800, 800, 800), Scale),
       Dielectric_new(1500),
       Lambertian_new(Color_new(-500, 500, 500)) >>

\* Values of random_double(), in [0, 1).
RandomDoubles == { 0, 500, 999 }

\* Values of Vec3::random_unit_vector().
RandomUnitVectors ==
    { Vec3_new(Scale, 0, 0), Vec3_new(-Scale, 0, 0),
      Vec3_new(0, Scale, 0), Vec3_new(0, -Scale, 0),
      Vec3_new(0, 0, Scale), Vec3_new(0, 0, -Scale) }

\* ------------------------------------------------------------------------
\* camera.rs
\* ------------------------------------------------------------------------

\* u32::MAX.  The model's u32 has 8 bits, so that every f64 computed from a
\* saturated pixel coordinate stays inside the model's numbers.
U32_MAX == 255

\* `as u32` on an f64: truncation, saturating, NaN becomes 0.
as_u32(v) ==
    IF v = NaN \/ v < 0 THEN 0
    ELSE IF v >= (U32_MAX + 1) * Scale THEN U32_MAX
    ELSE v \div Scale

\* `as f64` on a u32.
as_f64(n) == n * Scale

\* std::f32::consts::PI as f64.
PI == 3141

degrees_to_radians(vfov) == FDiv(FMul(vfov, PI), 180 * Scale)

\* f64::tan on the angles the cameras of the model use: 0 and 0.785
\* (45 degrees).
tan(radians) ==
    CASE radians = 0 -> 0
      [] radians = 785 -> Scale

\* impl Default for Camera.
Camera_default ==
    [aspect_ratio |-> Scale, image_width |-> 100, samples_per_pixel |-> 10,
     max_depth |-> 10, vfov |-> 90 * Scale, lookfrom |-> Vec3_default,
     lookat |-> Vec3_new(0, 0, -Scale), vup |-> Vec3_new(0, Scale, 0),
     image_height |-> 100, center |-> Vec3_default,
     pixel00_loc |-> Vec3_default, pixel_delta_u |-> Vec3_default,
     pixel_delta_v |-> Vec3_default, pixel_samples_scale |-> 0,
     u |-> Vec3_default, v |-> Vec3_default, w |-> Vec3_default,
     defocus_angle |-> 0, focus_dist |-> 10 * Scale,
     defocus_disk_u |-> Vec3_default, defocus_disk_v |-> Vec3_default]

image_height_kept(self) == self.image_height

\* Lines 229-233: image_height.
image_height_of(self) ==
    With(FDiv(as_f64(self.image_width), self.aspect_ratio),
         LAMBDA candidate_image_height :
      IF FLt(candidate_image_height, Scale) THEN 1
      ELSE as_u32(candidate_image_height))

\* Lines 240-243: viewport_height and viewport_width.
viewport_height_of(self) ==
    With(degrees_to_radians(self.vfov), LAMBDA theta :
    With(tan(FDiv(theta, 2 * Scale)), LAMBDA h :
      FMul(FMul(2 * Scale, h), self.focus_dist)))

viewport_width_of(self, image_height, viewport_height) ==
    FMul(viewport_height,
         FDiv(as_f64(self.image_width), as_f64(image_height)))

\* Lines 265-266: defocus_radius.
defocus_radius_of(self) ==
    FMul(self.focus_dist,
         tan(degrees_to_radians(FDiv(self.defocus_angle, 2 * Scale))))

\* Lines 250-269, once image_height, the viewport and the basis are known.
initialize_viewport(self, image_height, viewport_u, viewport_v, u, v, w) ==
    With(div(viewport_u, as_f64(self.image_width)), LAMBDA pixel_delta_u :
    With(div(viewport_v, as_f64(image_height)), LAMBDA pixel_delta_v :
    With(sub(sub(sub(self.lookfrom, mul(w, self.focus_dist)),
                 div(viewport_u, 2 * Scale)),
             div(viewport_v, 2 * Scale)), LAMBDA viewport_upper_left :
    With(defocus_radius_of(self), LAMBDA defocus_radius :
      [self EXCEPT
         !.image_height = image_height,
         !.pixel_samples_scale = FDiv(Scale, as_f64(self.samples_per_pixel)),
         !.center = self.lookfrom,
         !.w = w, !.u = u, !.v = v,
         !.pixel_delta_u = pixel_delta_u,
         !.pixel_delta_v = pixel_delta_v,
         !.pixel00_loc =
             add(viewport_upper_left,
                 mul(add(pixel_delta_u, pixel_delta_v), 500)),
         !.defocus_disk_u = mul(u, defocus_radius),
         !.defocus_disk_v = mul(v, defocus_radius)]))))

\* Camera::initialize: the camera after the call.
initialize(self) ==
    With(image_height_of(self), LAMBDA image_height :
    With(viewport_height_of(self), LAMBDA viewport_height :
    With(viewport_width_of(self, image_height, viewport_height),
         LAMBDA viewport_width :
    With(unit_vector(sub(self.lookfrom, self.lookat)), LAMBDA w :
    With(unit_vector(cross(self.vup, w)), LAMBDA u :
    With(cross(w, u), LAMBDA v :
      initialize_viewport(self, image_height, mul(u, viewport_width),
                          mul(v, viewport_height), u, v, w)))))))

\* Camera::sample_square.
sample_square(rng) ==
    With(random_double(rng), LAMBDA d1 :
    With(random_double(d1.rng), LAMBDA d2 :
      [value |-> Vec3_new(FSub(d1.value, 500), FSub(d2.value, 500), 0),
       rng |-> d2.rng]))

\* Camera::defocus_disk_sample.
defocus_disk_sample(self, rng) ==
    With(random_in_unit_disk(rng), LAMBDA p :
      [value |-> add(add(self.center, mul(self.defocus_disk_u, x(p.value))),
                     mul(self.defocus_disk_v, y(p.value))),
       rng |-> p.rng])

\* Line 288: pixel_sample.
pixel_sample_at(self, i, j, offset) ==
    add(add(self.pixel00_loc,
            mul(self.pixel_delta_u, FAdd(as_f64(i), x(offset)))),
        mul(self.pixel_delta_v, FAdd(as_f64(j), y(offset))))

\* Camera::get_ray(i, j) drawing from the generator state rng.
get_ray(self, i, j, rng) ==
    With(sample_square(rng), LAMBDA offset :
    With(IF FLe(self.defocus_angle, 0)
           THEN [value |-> self.center, rng |-> offset.rng]
           ELSE defocus_disk_sample(self, offset.rng), LAMBDA ray_origin :
      [value |-> Ray_new(ray_origin.value,
                         sub(pixel_sample_at(self, i, j, offset.value),
                             ray_origin.value)),
       rng |-> ray_origin.rng]))

\* The color ray_color returns for a ray that hits nothing.
background(ray) ==
    With(FMul(FAdd(y(unit_vector(ray.direction)), Scale), 500), LAMBDA a :
      add(mul(Color_new(Scale, Scale, Scale), FSub(Scale, a)),
          mul(Color_new(500, 700, Scale), a)))

\* world.hit(r, Interval::new(0.001, f64::INFINITY)).
world_hit(world, ray) == HittableList_hit(world, ray, Interval_new(1, Infinity))

same_depth(depth) == depth

\* The depth ray_color hands to its recursive call.
next_depth(depth) == depth - 1

RECURSIVE ray_color(_, _, _, _)
\* Camera::ray_color drawing from the generator state rng: the color and
\* the new generator state.  unwrap() panics on a record without material;
\* no record of Sphere::hit is one.
ray_color(ray, depth, world, rng) ==
    IF depth = 0 THEN [value |-> Vec3_default, rng |-> rng]
    ELSE With(world_hit(world, ray), LAMBDA rec :
      IF ~rec.some THEN [value |-> background(ray), rng |-> rng]
      ELSE With(scatter_rng(Materials[rec.mat], ray, rec, rng), LAMBDA s :
        IF ~s.value.ok THEN [value |-> Vec3_default, rng |-> s.rng]
        ELSE With(ray_color(s.value.scattered, next_depth(depth), world, s.rng),
                  LAMBDA c :
               [value |-> mul_vec(s.value.attenuation, c.value),
                rng |-> c.rng])))

\* Lines 203-204: the pixel coordinates u and v handed to get_ray.
sample_coordinate(index, extent, random) ==
    as_u32(FAdd(as_f64(index), FDiv(random, as_f64(extent - 1))))

\* Lines 203-205: the coordinates u as u32 and v as u32 that a pass of the
\* closure's for loop for pixel (i, j) hands to get_ray, and the generator
\* after the two draws.
sample_pixel(self, i, j, rng) ==
    With(random_double(rng), LAMBDA d1 :
    With(random_double(d1.rng), LAMBDA d2 :
      [u |-> sample_coordinate(i, self.image_width, d1.value),
       v |-> sample_coordinate(j, self.image_height, d2.value),
       rng |-> d2.rng]))

\* One pass of the closure's for loop (lines 203-206) for pixel (i, j):
\* the color added to pixel_color and the new generator state.
sample(self, world, i, j, rng) ==
    With(sample_pixel(self, i, j, rng), LAMBDA px :
    With(get_ray(self, px.u, px.v, px.rng), LAMBDA ray :
      ray_color(ray.value, self.max_depth, world, ray.rng)))

\* The PPM header render prints: println!("P3\n {0} {1} \n255", ...).
header(self) ==
    <<"P", "3", "\n", " ">> \o Display(self.image_width) \o <<" ">> \o
    Display(self.image_height) \o <<" ", "\n", "2", "5", "5", "\n">>

\* ------------------------------------------------------------------------
\* State
\* ------------------------------------------------------------------------

VARIABLES
    \* hittable_list.rs
    objects,         \* HittableList.objects (the world)
    hl_pc,           \* "idle", "scan" (inside HittableList::hit), "returned"
    r,               \* hit's argument r
    ray_t,           \* hit's argument ray_t
    idx,             \* number of objects the for loop has visited
    closest_so_far,  \* hit's local closest_so_far
    hit_record,      \* hit's local hit_record
    result,          \* what the last call of hit returned
    \* camera.rs, Camera::ray_color
    rc_pc,           \* "idle", "enter" (a call of ray_color starts), "return"
                     \* (a call returns rc_value), "done", "panic"
    rc_frames,       \* the call stack of ray_color: r, depth and, once
                     \* scatter has run, attenuation of every active call
    rc_value,        \* the Color the innermost finished call returned
    rc_depth,        \* the depth argument of the outermost call
    rc_hits,         \* calls of world.hit since the outermost call started
    \* material.rs
    materials,       \* the materials constructed so far, in order
    \* lib.rs, write_color
    out,             \* the bytes the writer (render: stdout) has taken
    wc_pc,           \* "idle", "returned" (write_color has returned)
    wc_color,        \* write_color's argument pixel_color
    wc_str,          \* write_color's local str
    wc_result,       \* the Result write_color returned
    wc_calls,        \* calls of write_color so far
    \* camera.rs, Camera::render
    camera,          \* the Camera (self)
    render_pc,       \* "idle", "row" (head of the for j loop), "par" (the
                     \* parallel map runs), "write" (the for pixel_color
                     \* loop), "done", "panic"
    remaining,       \* rows the iterator (0..image_height).rev() still holds
    j,               \* the loop variable j
    rng,             \* per worker thread: state of its thread-local generator
    task,            \* per worker thread: the closure call it runs: i, the
                     \* number of samples taken, and pixel_color
    results,         \* per column i of row j: the closure's value, once returned
    pixel_colors,    \* the Vec pixel_colors, what the write loop has left of it
    started,         \* per column i of row j: the worker that took it and the
                     \* state of that worker's generator at that moment
    finished,        \* columns of row j in the order their closures returned
    emitted,         \* <<j, i>> of every color line written, in order
    rays,            \* calls of get_ray so far
    \* camera.rs, the owner of the Camera
    api_calls,       \* calls the owner made on the Camera between renders
    caller_rng,      \* state of the calling thread's thread-local generator
    prev_camera,     \* the Camera as the last render that returned left it
                     \* (self), once a render has returned (some)
    last_get_ray     \* the last call of get_ray: the Camera it ran on (self),
                     \* its arguments i and j, the pixel whose closure made
                     \* the call (<<-1, -1>> for the owner), and the Ray

hlVars ==
    <<objects, hl_pc, r, ray_t, idx, closest_so_far, hit_record, result>>

rcVars == <<rc_pc, rc_frames, rc_value, rc_depth, rc_hits>>

wcVars == <<wc_pc, wc_color, wc_str, wc_result, wc_calls>>

rdVars ==
    <<camera, render_pc, remaining, j, rng, task, results, pixel_colors,
      started, finished, emitted, rays>>

apiVars == <<api_calls, caller_rng, prev_camera, last_get_ray>>

vars == <<hlVars, rcVars, materials, out, wcVars, rdVars, apiVars>>

\* The threads of the pool.
Workers == 1..NumWorkers

\* No closure call: the thread is idle.
NoTask == [i |-> -1, samples |-> 0, pixel_color |-> Vec3_default]

\* A column whose closure has not returned.
Pending == [done |-> FALSE, color |-> Vec3_default]

\* No call of get_ray yet.
NoGetRay == [self |-> Camera_default, i |-> 0, j |-> 0, pixel |-> <<-1, -1>>,
             value |-> Ray_default, called |-> FALSE]

hit_idle ==
    /\ hl_pc = "idle"
    /\ r = Ray_default
    /\ ray_t = Interval_new(Infinity, -Infinity)
    /\ idx = 0
    /\ closest_so_far = 0
    /\ hit_record = None
    /\ result = None

ray_color_idle ==
    /\ rc_pc = "idle"
    /\ rc_frames = <<>>
    /\ rc_value = Vec3_default
    /\ rc_depth = 0
    /\ rc_hits = 0

write_color_idle ==
    /\ wc_pc = "idle"
    /\ wc_color = Vec3_default
    /\ wc_str = <<>>
    /\ wc_result = Ok(0)
    /\ wc_calls = 0

render_idle ==
    /\ render_pc = "idle"
    /\ remaining = 0
    /\ j = 0
    /\ rng = [w \in Workers |-> w - 1]
    /\ task = [w \in Workers |-> NoTask]
    /\ results = <<>>
    /\ pixel_colors = <<>>
    /\ started = <<>>
    /\ finished = <<>>
    /\ emitted = <<>>
    /\ rays = 0


owner_idle ==
    /\ api_calls = 0
    /\ caller_rng = 0
    /\ prev_camera = [some |-> FALSE, self |-> Camera_default]
    /\ last_get_ray = NoGetRay
\* ------------------------------------------------------------------------
\* hittable_list.rs: building a list and scanning it
\* ------------------------------------------------------------------------

\* The spheres a scene is built from (center, radius, material index).
\* Sphere 1 is the one of the spec's end-to-end scenario; 2 lies behind it;
\* 3 contains the origin (it is hit from inside); 4 is off the z axis;
\* 5 has the geometry of sphere 1 and another material.
SceneSpheres ==
    { Sphere_new(Vec3_new(0, 0, -1000),  500, 1),
      Sphere_new(Vec3_new(0, 0, -3000), 1000, 2),
      Sphere_new(Vec3_new(0, 0, 0),     2000, 3),
      Sphere_new(Vec3_new(0, 3000, 0),  1000, 1),
      Sphere_new(Vec3_new(0, 0, -1000),  500, 2) }

\* The rays hit is called with: along -z (unit and of length 2), along +y,
\* oblique with a unit direction, and Ray::default().
SceneRays ==
    { Ray_new(Vec3_default, Vec3_new(0, 0, -1000)),
      Ray_new(Vec3_default, Vec3_new(0, 0, -2000)),
      Ray_new(Vec3_default, Vec3_new(0, 1000, 0)),
      Ray_new(Vec3_new(0, 750, 0), Vec3_new(0, -600, -800)),
      Ray_default }

\* The intervals hit is called with: ray_color's (0.001, inf), two finite
\* ones whose endpoints are roots of scene spheres, and the universe.
SceneIntervals ==
    { Interval_new(1, Infinity),
      Interval_new(0, 1000),
      Interval_new(500, 2000),
      Interval_new(-Infinity, Infinity) }

\* Everything but the list and the locals of hit.
otherThanHit == <<rcVars, materials, out, wcVars, rdVars, apiVars>>

\* HittableList::new.
HittableList_new ==
    /\ objects = <<>>
    /\ hit_idle

HittableList_add_front(object) ==
    /\ hl_pc # "scan"
    /\ Len(objects) < MaxObjects
    /\ objects' = <<object>> \o objects
    /\ hl_pc' = "idle"
    /\ result' = None
    /\ UNCHANGED <<r, ray_t, idx, closest_so_far, hit_record>>
    /\ UNCHANGED otherThanHit

\* HittableList::add, by the owner of the list between two calls of hit.
HittableList_add(object) ==
    /\ hl_pc # "scan"
    /\ Len(objects) < MaxObjects
    /\ objects' = Append(objects, object)
    /\ hl_pc' = "idle"
    /\ result' = None
    /\ UNCHANGED <<r, ray_t, idx, closest_so_far, hit_record>>
    /\ UNCHANGED otherThanHit

\* HittableList::clear.
HittableList_clear ==
    /\ hl_pc # "scan"
    /\ objects # <<>>
    /\ objects' = <<>>
    /\ hl_pc' = "idle"
    /\ result' = None
    /\ UNCHANGED <<r, ray_t, idx, closest_so_far, hit_record>>
    /\ UNCHANGED otherThanHit

\* HittableList::hit, lines 73-74: the locals before the loop.
hit_enter(ray, t_range) ==
    /\ hl_pc # "scan"
    /\ hl_pc' = "scan"
    /\ r' = ray
    /\ ray_t' = t_range
    /\ idx' = 0
    /\ closest_so_far' = t_range.max
    /\ hit_record' = None
    /\ result' = None
    /\ UNCHANGED objects
    /\ UNCHANGED otherThanHit

\* The for loop takes the next object.
hit_loop ==
    /\ hl_pc = "scan"
    /\ idx < Len(objects)
    /\ \E next \in { hit_body(objects[idx + 1], r, ray_t, closest_so_far,
                                hit_record) } :
          /\ closest_so_far' = next[1]
          /\ hit_record' = next[2]
    /\ idx' = idx + 1
    /\ UNCHANGED <<objects, hl_pc, r, ray_t, result>>
    /\ UNCHANGED otherThanHit

\* Line 82: the loop is over and hit returns hit_record.
hit_return ==
    /\ hl_pc = "scan"
    /\ idx = Len(objects)
    /\ result' = hit_record
    /\ hl_pc' = "returned"
    /\ UNCHANGED <<objects, r, ray_t, idx, closest_so_far, hit_record>>
    /\ UNCHANGED otherThanHit

\* ------------------------------------------------------------------------
\* camera.rs: the calls of Camera::ray_color, one step at a time
\* ------------------------------------------------------------------------

\* Everything but the call stack of ray_color.
otherThanColor == <<hlVars, materials, out, wcVars, rdVars, apiVars>>

\* The worlds ray_color is called with.
ColorWorlds ==
    { <<>>,
      << Sphere_new(Vec3_new(0, 0, -1000), 500, 1) >>,
      << Sphere_new(Vec3_new(0, 0, -3000), 1000, 2),
         Sphere_new(Vec3_new(0, 0, -1000), 500, 1) >>,
      << Sphere_new(Vec3_new(0, 0, 0), 2000, 3),
         Sphere_new(Vec3_new(0, 0, -1000), 500, 2) >>,
      << Sphere_new(Vec3_new(0, 0, -1000), 500, 4) >> }

\* The rays the outermost call gets: camera rays, which have a direction.
ColorRays == SceneRays \ { Ray_default }

Frame(ray, depth) == [r |-> ray, depth |-> depth, attenuation |-> Vec3_default]

\* A caller (render) calls ray_color(r, depth, world).
ray_color_call(ray, depth) ==
    /\ rc_pc \in { "idle", "done" }
    /\ rc_frames' = << Frame(ray, depth) >>
    /\ rc_pc' = "enter"
    /\ rc_value' = Vec3_default
    /\ rc_depth' = depth
    /\ rc_hits' = 0
    /\ UNCHANGED otherThanColor

\* Lines 318-320: the depth budget is used up.
ray_color_depth_zero ==
    /\ rc_pc = "enter"
    /\ rc_frames[Len(rc_frames)].depth = 0
    /\ rc_value' = Vec3_default
    /\ rc_pc' = "return"
    /\ UNCHANGED <<rc_frames, rc_depth, rc_hits>>
    /\ UNCHANGED otherThanColor

\* Lines 321 and 337-341: the ray misses the world.
ray_color_miss ==
    /\ rc_pc = "enter"
    /\ \E top \in { rc_frames[Len(rc_frames)] } :
          /\ top.depth # 0
          /\ ~world_hit(objects, top.r).some
          /\ rc_value' = background(top.r)
    /\ rc_hits' = rc_hits + 1
    /\ rc_pc' = "return"
    /\ UNCHANGED <<rc_frames, rc_depth>>
    /\ UNCHANGED otherThanColor

\* Lines 321-336: the ray hits, the material scatters with the random
\* values it draws, and ray_color recurses or returns black.
ray_color_hit(random_unit, random) ==
    /\ rc_pc = "enter"
    /\ \E top \in { rc_frames[Len(rc_frames)] } :
       \E rec \in { world_hit(objects, top.r) } :
          /\ top.depth # 0
          /\ rec.some
          /\ IF rec.mat = NoMat
               THEN \* rec.mat.as_ref().unwrap() panics
                    /\ rc_pc' = "panic"
                    /\ UNCHANGED <<rc_frames, rc_value>>
               ELSE \E sc \in { scatter(Materials[rec.mat], top.r, rec,
                                         random_unit, random) } :
                      IF sc.ok
                        THEN /\ rc_frames' =
                                  Append([rc_frames EXCEPT
                                            ![Len(rc_frames)].attenuation =
                                                sc.attenuation],
                                         Frame(sc.scattered,
                                               next_depth(top.depth)))
                             /\ rc_pc' = "enter"
                             /\ UNCHANGED rc_value
                        ELSE /\ rc_value' = Vec3_default
                             /\ rc_pc' = "return"
                             /\ UNCHANGED rc_frames
    /\ rc_hits' = rc_hits + 1
    /\ UNCHANGED rc_depth
    /\ UNCHANGED otherThanColor

\* A call returns rc_value; its caller, if it is ray_color (line 333),
\* multiplies it by its attenuation and returns in turn.
ray_color_return ==
    /\ rc_pc = "return"
    /\ LET n == Len(rc_frames)
       IN  /\ rc_frames' = SubSeq(rc_frames, 1, n - 1)
           /\ IF n > 1
                THEN /\ rc_value' = mul_vec(rc_frames[n - 1].attenuation, rc_value)
                     /\ rc_pc' = "return"
                ELSE /\ rc_pc' = "done"
                     /\ UNCHANGED rc_value
    /\ UNCHANGED <<rc_depth, rc_hits>>
    /\ UNCHANGED otherThanColor

\* ------------------------------------------------------------------------
\* material.rs: constructing the materials of a scene
\* ------------------------------------------------------------------------

\* Everything but the constructed materials.
otherThanMaterials == <<hlVars, rcVars, out, wcVars, rdVars, apiVars>>

\* The albedos materials are constructed with.
Albedos == { Color_new(500, 500, 500), Color_new(800, 600, 200) }

\* The f Metal::new is called with: below, inside, on the ends of and above
\* [0, 1], the infinities and NaN.
FuzzInputs == { -Infinity, -500, 0, 300, Scale, 1500, Infinity, NaN }

\* The refraction indices Dielectric::new is called with.
RefractionIndices == { 667, 1500 }

Lambertian_construct(albedo) ==
    /\ Len(materials) < MaxMaterials
    /\ materials' = Append(materials, Lambertian_new(albedo))
    /\ UNCHANGED otherThanMaterials

Metal_construct(albedo, f) ==
    /\ Len(materials) < MaxMaterials
    /\ materials' = Append(materials, Metal_new(albedo, f))
    /\ UNCHANGED otherThanMaterials

Dielectric_construct(refraction_index) ==
    /\ Len(materials) < MaxMaterials
    /\ materials' = Append(materials, Dielectric_new(refraction_index))
    /\ UNCHANGED otherThanMaterials

\* ------------------------------------------------------------------------
\* lib.rs: calls of write_color on a writer
\* ------------------------------------------------------------------------

\* Everything but the writer and the locals of write_color.
otherThanWrite == <<hlVars, rcVars, materials, rdVars, apiVars>>

\* The components of the colors write_color is called with: negative, zero,
\* inside (0, 1), on and above 1, the infinities and NaN.
WriteComponents == { -Infinity, -250, 0, 1, 250, 998, Scale, 4 * Scale, Infinity, NaN }

\* The colors write_color is called with.
WriteColors ==
    { Color_new(c, 250, Scale) : c \in WriteComponents } \cup
    { Color_new(0, c, NaN) : c \in WriteComponents } \cup
    { Color_new(Infinity, -250, c) : c \in WriteComponents }

\* What a call of Write::write may do with a buffer of n bytes: fail (-1),
\* take nothing, take all but the last byte, or take all.
WriteOutcomes(n) == { -1, 0, n - 1, n }

\* write_color(out, pixel_color) on a writer that takes `accepted` bytes.
write_color(pixel_color, accepted) ==
    /\ wc_calls < MaxWrites
    /\ \E w \in { write_color_on(out, pixel_color, accepted) } :
          /\ out' = w.stream
          /\ wc_result' = w.res
    /\ wc_color' = pixel_color
    /\ wc_str' = color_line(pixel_color)
    /\ wc_pc' = "returned"
    /\ wc_calls' = wc_calls + 1
    /\ UNCHANGED otherThanWrite

\* ------------------------------------------------------------------------
\* camera.rs: Camera::render
\* ------------------------------------------------------------------------

\* Everything but the camera, the locals of render and stdout.
otherThanRender == <<hl_pc, r, ray_t, idx, closest_so_far, hit_record, result,
                     rcVars, materials, wcVars, api_calls, caller_rng,
                     prev_camera>>

\* Columns of the image: the range 0..image_width.
Columns == 0..(camera.image_width - 1)

forward_next(left, image_height) == image_height - left

\* (0..image_height).rev(): the j next() yields when `left` rows are left.
rev_next(left, image_height) == left - 1

\* `rand::rng()` of thread w stores the new state of its generator.
rng_store_shared(generators, w, state) == [v \in DOMAIN generators |-> state]

rng_store(generators, w, state) == [generators EXCEPT ![w] = state]

collect_as_completed(res, order) ==
    [k \in 1..Len(order) |-> [i |-> order[k], color |-> res[order[k]].color]]

\* collect() of the indexed parallel iterator: the closures' values in the
\* order of the range, each with the column it belongs to.
collect(res, order) ==
    [k \in 1..Len(order) |-> [i |-> k - 1, color |-> res[k - 1].color]]

expect_swallowed(res) == TRUE

\* Result::expect on what write_color returned: TRUE when it returns the
\* value, FALSE when it panics with the message.
expect(res) == res.ok

\* Lines 193-194: initialize and the header.
render_begin ==
    /\ render_pc = "idle"
    /\ camera' = initialize(camera)
    /\ out' = out \o header(camera')
    /\ remaining' = camera'.image_height
    /\ render_pc' = "row"
    /\ UNCHANGED <<j, rng, task, results, pixel_colors, started, finished,
                   emitted, rays, objects,
                   last_get_ray>>
    /\ UNCHANGED otherThanRender

\* Line 196: the for loop takes the next j and the parallel map starts.
row_begin ==
    /\ render_pc = "row"
    /\ remaining > 0
    /\ j' = rev_next(remaining, camera.image_height)
    /\ remaining' = remaining - 1
    /\ results' = [i \in Columns |-> Pending]
    /\ started' = [i \in Columns |-> [worker |-> 0, rng |-> 0]]
    /\ finished' = <<>>
    /\ render_pc' = "par"
    /\ UNCHANGED <<camera, rng, task, pixel_colors, emitted, rays, out, objects,
                   last_get_ray>>
    /\ UNCHANGED otherThanRender

\* Line 200: worker thread w calls the closure for column i.
task_begin(w, i) ==
    /\ render_pc = "par"
    /\ task[w] = NoTask
    /\ i \in Columns
    /\ started[i].worker = 0
    /\ task' = [task EXCEPT ![w] = [NoTask EXCEPT !.i = i]]
    /\ started' = [started EXCEPT ![i] = [worker |-> w, rng |-> rng[w]]]
    /\ UNCHANGED <<camera, render_pc, remaining, j, rng, results,
                   pixel_colors, finished, emitted, rays, out, objects,
                   last_get_ray>>
    /\ UNCHANGED otherThanRender

\* Lines 202-207: one pass of the closure's for loop on thread w.
task_sample(w) ==
    /\ render_pc = "par"
    /\ task[w] # NoTask
    /\ task[w].samples < camera.samples_per_pixel
    /\ \E s \in { sample(camera, objects, task[w].i, j, rng[w]) } :
          /\ task' = [task EXCEPT
                        ![w].pixel_color = add(task[w].pixel_color, s.value),
                        ![w].samples = task[w].samples + 1]
          /\ rng' = rng_store(rng, w, s.rng)
    /\ rays' = rays + 1
    /\ \E px \in { sample_pixel(camera, task[w].i, j, rng[w]) } :
          last_get_ray' = [self |-> camera, i |-> px.u, j |-> px.v,
                           pixel |-> <<task[w].i, j>>,
                           value |-> get_ray(camera, px.u, px.v, px.rng).value,
                           called |-> TRUE]
    /\ UNCHANGED <<camera, render_pc, remaining, j, results, pixel_colors,
                   started, finished, emitted, out, objects>>
    /\ UNCHANGED otherThanRender

\* Line 208: the closure on thread w returns pixel_color.
task_end(w) ==
    /\ render_pc = "par"
    /\ task[w] # NoTask
    /\ task[w].samples = camera.samples_per_pixel
    /\ results' = [results EXCEPT
                     ![task[w].i] = [done |-> TRUE,
                                     color |-> task[w].pixel_color]]
    /\ finished' = Append(finished, task[w].i)
    /\ task' = [task EXCEPT ![w] = NoTask]
    /\ UNCHANGED <<camera, render_pc, remaining, j, rng, pixel_colors,
                   started, emitted, rays, out, objects,
                   last_get_ray>>
    /\ UNCHANGED otherThanRender

\* Line 210: every closure has returned and collect() builds pixel_colors.
row_collect ==
    /\ render_pc = "par"
    /\ \A i \in Columns : results[i].done
    /\ pixel_colors' = collect(results, finished)
    /\ render_pc' = "write"
    /\ UNCHANGED <<camera, remaining, j, rng, task, results, started,
                   finished, emitted, rays, out, objects,
                   last_get_ray>>
    /\ UNCHANGED otherThanRender

\* Lines 212-215: the write loop takes the next pixel_color; stdout takes
\* the whole line or fails, and expect() panics on the failure.
row_write(fails) ==
    /\ render_pc = "write"
    /\ pixel_colors # <<>>
    /\ \E scaled \in { mul(Head(pixel_colors).color,
                             camera.pixel_samples_scale) } :
       \E w \in { write_color_on(out, scaled,
                                 IF fails THEN -1
                                 ELSE Len(color_line(scaled))) } :
          /\ out' = w.stream
          /\ IF expect(w.res)
               THEN /\ emitted' = Append(emitted, <<j, Head(pixel_colors).i>>)
                    /\ pixel_colors' = Tail(pixel_colors)
                    /\ UNCHANGED render_pc
               ELSE /\ render_pc' = "panic"
                    /\ UNCHANGED <<emitted, pixel_colors>>
    /\ UNCHANGED <<camera, remaining, j, rng, task, results, started,
                   finished, rays, objects,
                   last_get_ray>>
    /\ UNCHANGED otherThanRender

\* The write loop is over: back to the head of the for j loop.
row_end ==
    /\ render_pc = "write"
    /\ pixel_colors = <<>>
    /\ render_pc' = "row"
    /\ UNCHANGED <<camera, remaining, j, rng, task, results, pixel_colors,
                   started, finished, emitted, rays, out, objects,
                   last_get_ray>>
    /\ UNCHANGED otherThanRender

\* Line 217: the for j loop is over and render returns.
render_return ==
    /\ render_pc = "row"
    /\ remaining = 0
    /\ render_pc' = "done"
    /\ UNCHANGED <<camera, remaining, j, rng, task, results, pixel_colors,
                   started, finished, emitted, rays, out, objects,
                   last_get_ray>>
    /\ UNCHANGED otherThanRender

\* ------------------------------------------------------------------------
\* camera.rs: the owner of a Camera
\* ------------------------------------------------------------------------

\* Everything but the Camera, its owner's state and the count of rays.
otherThanOwner ==
    <<hlVars, rcVars, materials, out, wcVars, remaining, j, rng, task,
      results, pixel_colors, started, finished, emitted>>

\* The values the owner assigns to the public fields of the Camera.
FieldValues ==
    [image_width  |-> { 0, 1, 2 },
     aspect_ratio |-> { 2 * Scale, NaN },
     lookfrom     |-> { Vec3_new(0, 0, Scale) }]

\* The owner assigns a public field of the Camera (`camera.field = value`);
\* the derived fields keep what they held.
Camera_set(field, value) ==
    /\ render_pc = "idle"
    /\ api_calls < MaxCalls
    /\ camera' = [camera EXCEPT ![field] = value]
    /\ api_calls' = api_calls + 1
    /\ UNCHANGED <<render_pc, caller_rng, prev_camera, last_get_ray, rays>>
    /\ UNCHANGED otherThanOwner

\* The owner calls the public Camera::get_ray(i, j) itself.
get_ray_call(i, jj) ==
    /\ render_pc = "idle"
    /\ api_calls < MaxCalls
    /\ \E ray \in { get_ray(camera, i, jj, caller_rng) } :
          /\ last_get_ray' = [self |-> camera, i |-> i, j |-> jj,
                              pixel |-> <<-1, -1>>, value |-> ray.value,
                              called |-> TRUE]
          /\ caller_rng' = ray.rng
    /\ rays' = rays + 1
    /\ api_calls' = api_calls + 1
    /\ UNCHANGED <<camera, render_pc, prev_camera>>
    /\ UNCHANGED otherThanOwner

\* render has returned: its `&mut self` borrow ends and the owner has the
\* Camera again, with the derived fields render left in it.
render_handback ==
    /\ render_pc = "done"
    /\ api_calls < MaxCalls
    /\ render_pc' = "idle"
    /\ prev_camera' = [some |-> TRUE, self |-> camera]
    /\ api_calls' = api_calls + 1
    /\ UNCHANGED <<camera, caller_rng, last_get_ray, rays>>
    /\ UNCHANGED otherThanOwner

\* ------------------------------------------------------------------------
\* Specifications
\* ------------------------------------------------------------------------

\* Nothing has run yet: `world` is the scene and `cam` the configured camera.
AllIdle(world, cam) ==
    /\ objects = world
    /\ hit_idle
    /\ ray_color_idle
    /\ materials = <<>>
    /\ out = <<>>
    /\ write_color_idle
    /\ camera = cam
    /\ render_idle
    /\ owner_idle

\* An empty HittableList and Camera::default().
Init == AllIdle(<<>>, Camera_default)

\* A list is built, cleared and scanned.
SpecHitNext ==
    \/ \E object \in SceneSpheres : HittableList_add(object)
    \/ HittableList_clear
    \/ \E ray \in SceneRays, t_range \in SceneIntervals : hit_enter(ray, t_range)
    \/ hit_loop
    \/ hit_return

SpecHit == Init /\ [][SpecHitNext]_vars

InitColor == \E world \in ColorWorlds : AllIdle(world, Camera_default)

\* ray_color is called on a world, and runs.
SpecColorNext ==
    \/ \E ray \in ColorRays, depth \in 0..MaxDepth : ray_color_call(ray, depth)
    \/ ray_color_depth_zero
    \/ ray_color_miss
    \/ \E random_unit \in RandomUnitVectors, random \in RandomDoubles :
          ray_color_hit(random_unit, random)
    \/ ray_color_return

SpecColor == InitColor /\ [][SpecColorNext]_vars

\* The materials of a scene are constructed.
SpecSceneNext ==
    \/ \E albedo \in Albedos : Lambertian_construct(albedo)
    \/ \E albedo \in Albedos, f \in FuzzInputs : Metal_construct(albedo, f)
    \/ \E refraction_index \in RefractionIndices :
          Dielectric_construct(refraction_index)

SpecScene == Init /\ [][SpecSceneNext]_vars

\* Colors are written to a writer.
SpecWriteNext ==
    \E pixel_color \in WriteColors :
        \E accepted \in WriteOutcomes(Len(color_line(pixel_color))) :
            write_color(pixel_color, accepted)

SpecWrite == Init /\ [][SpecWriteNext]_vars

\* A camera of the model: Camera::default() with the public fields set.
Camera_with(image_width, aspect_ratio, samples_per_pixel) ==
    [Camera_default EXCEPT !.image_width = image_width,
                           !.aspect_ratio = aspect_ratio,
                           !.samples_per_pixel = samples_per_pixel,
                           !.max_depth = 2,
                           !.focus_dist = Scale]

\* The cameras render is called on: every width, square and 2:1, every
\* sample count; one looking at its own position; one with a defocus disk.
RenderCameras ==
    { Camera_with(w, a, s) :
        w \in 1..MaxWidth, a \in { Scale, 2 * Scale }, s \in 1..MaxSamples }
    \cup { [Camera_with(2, Scale, 1) EXCEPT !.lookat = Vec3_default] }
    \cup { [Camera_with(2, 2 * Scale, 1) EXCEPT !.defocus_angle = 90 * Scale] }

\* The worlds render is called with: empty, and the sphere of the spec's
\* end-to-end scenario.
RenderWorlds == { <<>>, << Sphere_new(Vec3_new(0, 0, -1000), 500, 1) >> }

InitRender ==
    \E world \in RenderWorlds, cam \in RenderCameras : AllIdle(world, cam)

SpecRenderNext ==
    \/ render_begin
    \/ row_begin
    \/ \E w \in Workers, i \in 0..(MaxWidth - 1) : task_begin(w, i)
    \/ \E w \in Workers : task_sample(w)
    \/ \E w \in Workers : task_end(w)
    \/ row_collect
    \/ \E fails \in BOOLEAN : row_write(fails)
    \/ row_end
    \/ render_return

SpecRender == InitRender /\ [][SpecRenderNext]_vars


\* The cameras an owner starts from: one pixel, and a row of two.
OwnerCameras == { Camera_with(1, Scale, 1), Camera_with(2, 2 * Scale, 1) }

InitCamera ==
    \E world \in RenderWorlds, cam \in OwnerCameras : AllIdle(world, cam)

\* The owner of a Camera configures it, calls get_ray and renders, in any
\* order.
SpecCameraNext ==
    \/ \E field \in DOMAIN FieldValues :
          \E value \in FieldValues[field] : Camera_set(field, value)
    \/ \E i \in 0..1, jj \in 0..1 : get_ray_call(i, jj)
    \/ render_handback
    \/ SpecRenderNext

SpecCamera == InitCamera /\ [][SpecCameraNext]_vars

\* ------------------------------------------------------------------------
\* Properties of SpecHit
\* ------------------------------------------------------------------------

\* The records the members of the list return for the call's own interval.
MemberHits ==
    { Sphere_hit(objects[i], r, ray_t) : i \in 1..Len(objects) } \ { None }

MinOf(S) == CHOOSE m \in S : \A n \in S : m <= n

\* Every order the members of the list can be inserted in.
InsertionOrders ==
    { [i \in 1..Len(objects) |-> objects[f[i]]] :
        f \in Permutations(1..Len(objects)) }

\* C1: when HittableList::hit has returned and at least one member has an
\* intersection strictly inside ray_t, the returned record's t is the
\* minimum of the members' t, and hit returns this t for every permutation
\* of the insertion order.
C1_NearestHit ==
    (hl_pc = "returned" /\ MemberHits # {}) =>
        /\ result.some
        /\ result.t = MinOf({ rec.t : rec \in MemberHits })
        /\ \A objs \in InsertionOrders :
              /\ HittableList_hit(objs, r, ray_t).some
              /\ HittableList_hit(objs, r, ray_t).t = result.t

\* C1's case: hit returned the hit of a member that is neither the first
\* nor the last of a list in which the first and the last member are hit too,
\* farther away.
C1_Witness ==
    /\ hl_pc = "returned"
    /\ Len(objects) >= 3
    /\ result.some
    /\ Sphere_hit(objects[1], r, ray_t).some
    /\ Sphere_hit(objects[1], r, ray_t).t > result.t
    /\ Sphere_hit(objects[Len(objects)], r, ray_t).some
    /\ Sphere_hit(objects[Len(objects)], r, ray_t).t > result.t

StrictlyInside(t_range, t) == FLt(t_range.min, t) /\ FLt(t, t_range.max)

\* C2: a record returned by Sphere::hit or by HittableList::hit, and the
\* record the scan holds, has ray_t.min < t < ray_t.max.
C2_HitStrictlyInside ==
    /\ \A rec \in MemberHits : StrictlyInside(ray_t, rec.t)
    /\ hit_record.some => StrictlyInside(ray_t, hit_record.t)
    /\ (hl_pc = "returned" /\ result.some) => StrictlyInside(ray_t, result.t)

\* C2's case: a member has a root that is exactly an endpoint of ray_t, and
\* hit has returned a record.
C2_Witness ==
    /\ hl_pc = "returned"
    /\ result.some
    /\ \E i \in 1..Len(objects) :
          LET any == Sphere_hit(objects[i], r, Interval_new(-Infinity, Infinity))
          IN  any.some /\ any.t \in { ray_t.min, ray_t.max }

\* C3: after set_face_normal, dot(r.direction, normal) <= 0, front_face is
\* true exactly when dot(r.direction, outward_normal) < 0, and normal is
\* outward_normal when front_face is true and its negation otherwise.
C3_NormalOpposesRay ==
    /\ \A i \in 1..Len(objects) :
          LET rec == Sphere_hit(objects[i], r, ray_t)
              outward_normal == outward_normal_at(objects[i], rec.p)
          IN  rec.some =>
                /\ FLe(dot(r.direction, rec.normal), 0)
                /\ rec.front_face <=> FLt(dot(r.direction, outward_normal), 0)
                /\ rec.front_face => rec.normal = outward_normal
                /\ ~rec.front_face => rec.normal = neg(outward_normal)
    /\ hit_record.some => FLe(dot(r.direction, hit_record.normal), 0)
    /\ result.some => FLe(dot(r.direction, result.normal), 0)

\* C3's case: the scan holds a record of a sphere hit from inside, whose
\* normal set_face_normal has negated.
C3_Witness ==
    /\ hit_record.some
    /\ ~hit_record.front_face
    /\ FLt(dot(r.direction, hit_record.normal), 0)
    /\ \E i \in 1..Len(objects) :
          /\ Sphere_hit(objects[i], r, ray_t) = hit_record
          /\ hit_record.normal = neg(outward_normal_at(objects[i], hit_record.p))


\* The intervals Sphere::hit is called with during the scan: the call's own
\* and the one narrowed to closest_so_far.
ScanIntervals == { ray_t, Interval_new(ray_t.min, closest_so_far) }

\* C16: Sphere::hit returns None when the discriminant is negative;
\* otherwise the record of the smaller root (h - sqrtd)/a when that root is
\* strictly inside ray_t, else the record of the larger root (h + sqrtd)/a
\* when that one is strictly inside ray_t, else None: the larger root is
\* never returned when the smaller one is acceptable.
C16_RootSelection ==
    \A i \in 1..Len(objects) : \A t_range \in ScanIntervals :
        LET rec == Sphere_hit(objects[i], r, t_range)
            negative == FLt(Quadratic(objects[i], r).discriminant, 0)
            root1 == SmallerRoot(objects[i], r)
            root2 == LargerRoot(objects[i], r)
        IN  /\ negative => rec = None
            /\ (~negative /\ StrictlyInside(t_range, root1)) =>
                  rec = Sphere_record(objects[i], r, root1)
            /\ (~negative /\ ~StrictlyInside(t_range, root1)
                  /\ StrictlyInside(t_range, root2)) =>
                  rec = Sphere_record(objects[i], r, root2)
            /\ (~negative /\ ~StrictlyInside(t_range, root1)
                  /\ ~StrictlyInside(t_range, root2)) => rec = None
            /\ (rec.some /\ rec.t = root2 /\ root1 # root2) =>
                  ~StrictlyInside(t_range, root1)

\* C16's case: the scan has tested a list with a member the ray misses
\* (negative discriminant), a member with both roots inside ray_t (the
\* smaller is returned) and a member whose smaller root is outside ray_t
\* and whose larger root is inside (the larger is returned).
C16_Witness ==
    /\ hl_pc = "scan"
    /\ idx = Len(objects)
    /\ \E i \in 1..Len(objects) :
          FLt(Quadratic(objects[i], r).discriminant, 0)
    /\ \E i \in 1..Len(objects) :
          /\ StrictlyInside(ray_t, SmallerRoot(objects[i], r))
          /\ StrictlyInside(ray_t, LargerRoot(objects[i], r))
          /\ FLt(SmallerRoot(objects[i], r), LargerRoot(objects[i], r))
          /\ Sphere_hit(objects[i], r, ray_t).t = SmallerRoot(objects[i], r)
    /\ \E i \in 1..Len(objects) :
          /\ ~FLt(Quadratic(objects[i], r).discriminant, 0)
          /\ ~StrictlyInside(ray_t, SmallerRoot(objects[i], r))
          /\ Sphere_hit(objects[i], r, ray_t).some
          /\ Sphere_hit(objects[i], r, ray_t).t = LargerRoot(objects[i], r)

\* What the scan holds after its first k members.
HeldAfter(k) == HittableList_hit(SubSeq(objects, 1, k), r, ray_t)

\* One iteration of the scan, on member idx + 1.
C20_Iteration ==
    LET tested == Sphere_hit(objects[idx + 1], r,
                             Interval_new(ray_t.min, closest_so_far))
    IN  /\ FLe(closest_so_far', closest_so_far)
        /\ IF tested.some
             THEN /\ hit_record' = tested
                  /\ FLt(ray_t.min, tested.t)
                  /\ FLt(tested.t, closest_so_far)
                  /\ hit_record.some => FLt(hit_record'.t, hit_record.t)
             ELSE /\ hit_record' = hit_record
                  /\ closest_so_far' = closest_so_far

\* C20: during the scan of HittableList::hit closest_so_far never
\* increases; it is ray_t.max while no record is held and the t of the held
\* record otherwise; each member is tested against the interval
\* (ray_t.min, closest_so_far) only, so a later member replaces the held
\* record only with a strictly smaller t.
C20_ShrinkingBound ==
    /\ [](hl_pc = "scan" =>
            closest_so_far = IF hit_record.some THEN hit_record.t
                             ELSE ray_t.max)
    /\ [][(hl_pc = "scan" /\ idx' = idx + 1) => C20_Iteration]_vars

\* C20's case: the scan has replaced a held record by the nearer hit of a
\* later member, and after that has tested a member that the call's own
\* interval would accept and the narrowed one rejects.
C20_Witness ==
    /\ hl_pc = "scan"
    /\ idx = 3
    /\ HeldAfter(1).some
    /\ HeldAfter(2).some
    /\ HeldAfter(2).t < HeldAfter(1).t
    /\ hit_record = HeldAfter(2)
    /\ closest_so_far = hit_record.t
    /\ closest_so_far < ray_t.max
    /\ Sphere_hit(objects[3], r, ray_t).some
    /\ Sphere_hit(objects[3], r, ray_t).t > closest_so_far

\* C21: hit tests exactly the objects added since the most recent clear (or
\* since construction), in insertion order: add puts an object after the
\* members, clear leaves no member, nothing else changes the list, the scan
\* takes the members one by one from the first, and what hit returns is
\* the scan of the whole list; hit returns None on a list without members
\* and whenever no member hits.
C21_TestsCurrentMembers ==
    /\ [](hl_pc = "scan" =>
            /\ idx \in 0..Len(objects)
            /\ hit_record = HeldAfter(idx))
    /\ [](hl_pc = "returned" =>
            /\ idx = Len(objects)
            /\ result = HeldAfter(Len(objects))
            /\ objects = <<>> => result = None
            /\ MemberHits = {} => result = None)
    /\ [][objects' # objects =>
            /\ hl_pc # "scan"
            /\ \/ objects' = <<>>
               \/ /\ Len(objects') = Len(objects) + 1
                  /\ SubSeq(objects', 1, Len(objects)) = objects]_vars
    /\ [][(hl_pc = "scan" /\ idx' # idx) =>
            /\ idx' = idx + 1
            /\ hit_record' \in
                  { hit_record,
                    Sphere_hit(objects[idx + 1], r,
                               Interval_new(ray_t.min, closest_so_far)) }]_vars

\* C21's case: hit has scanned a list without members (new, or cleared) for
\* a ray with a direction and the universe interval, and has returned None.
C21_Witness ==
    /\ hl_pc = "returned"
    /\ objects = <<>>
    /\ result = None
    /\ r # Ray_default
    /\ ray_t = Interval_new(-Infinity, Infinity)

\* The members whose intersection inside ray_t is the nearest one.
NearestMembers ==
    { i \in 1..Len(objects) :
        /\ Sphere_hit(objects[i], r, ray_t).some
        /\ \A k \in 1..Len(objects) :
              Sphere_hit(objects[k], r, ray_t).some =>
                Sphere_hit(objects[i], r, ray_t).t <=
                    Sphere_hit(objects[k], r, ray_t).t }

\* C22: when two or more members intersect the ray at exactly the same
\* nearest t, hit returns the record of the earliest-inserted of them (a
\* later member with equal t never replaces the held record); the returned
\* record, and so its material, is the same for every insertion order
\* when only one member is the nearest.
C22_EarliestOfEqual ==
    /\ [](( hl_pc = "returned" /\ NearestMembers # {}) =>
            /\ result = Sphere_hit(objects[MinOf(NearestMembers)], r, ray_t)
            /\ result.mat = objects[MinOf(NearestMembers)].mat
            /\ Cardinality(NearestMembers) = 1 =>
                  \A objs \in InsertionOrders :
                      HittableList_hit(objs, r, ray_t) = result)
    /\ [][(hl_pc = "scan" /\ idx' = idx + 1 /\ hit_record.some
            /\ Sphere_hit(objects[idx + 1], r, ray_t).some
            /\ Sphere_hit(objects[idx + 1], r, ray_t).t = hit_record.t) =>
              hit_record' = hit_record]_vars

\* C22's case: hit has returned on a list in which a member that is not the
\* first and a later member of another material both have the nearest t:
\* the record returned is the earlier member's.
C22_Witness ==
    /\ hl_pc = "returned"
    /\ result.some
    /\ \E i \in NearestMembers, k \in NearestMembers :
          /\ 1 < i
          /\ i < k
          /\ i = MinOf(NearestMembers)
          /\ objects[i].mat # objects[k].mat
          /\ result.mat = objects[i].mat
\* ------------------------------------------------------------------------
\* Properties of SpecColor
\* ------------------------------------------------------------------------

\* The call of ray_color on top of the stack.
TopFrame == rc_frames[Len(rc_frames)]

\* A call of ray_color is in progress.
Running == rc_pc \in { "enter", "return" }

\* Every nested call has one less depth than its caller; the intersections
\* so far are within the budget of the outermost call; a call with depth 0
\* returns black and has not intersected the scene itself; no call panics.
DepthBudget ==
    /\ rc_pc # "panic"
    /\ \A k \in 1..Len(rc_frames) : rc_frames[k].depth = rc_depth - (k - 1)
    /\ rc_hits <= rc_depth
    /\ rc_pc = "enter" => rc_hits = Len(rc_frames) - 1
    /\ (rc_pc = "return" /\ rc_frames # <<>> /\ TopFrame.depth = 0) =>
          /\ rc_value = Vec3_default
          /\ rc_hits = Len(rc_frames) - 1

\* What is left to do: a natural number that every step of a call in
\* progress makes smaller, so no call runs forever.
Variant ==
    IF rc_pc = "enter" THEN 2 * TopFrame.depth + Len(rc_frames) + 1
    ELSE IF rc_pc = "return" THEN Len(rc_frames)
    ELSE 0

\* C4: ray_color called with depth d terminates whatever the scene and the
\* scatter outcomes are (every step of a running call decreases Variant,
\* which is never negative), after at most d intersections of the scene; a
\* call whose depth is 0 returns black without intersecting the scene and
\* without an error.
C4_Terminates ==
    /\ [](DepthBudget /\ Variant >= 0)
    /\ [][Running => Variant' < Variant]_vars

\* C4's case: a call with the largest depth has returned after as many
\* intersections as its depth: the innermost call ran out of depth.
C4_Witness ==
    /\ rc_pc = "done"
    /\ rc_depth = MaxDepth
    /\ rc_hits = rc_depth
    /\ rc_value = Vec3_default

\* C14: for every scene of the provided materials, every ray and every
\* depth, each component of the color a call of ray_color returns is >= 0.
C14_NonNegative ==
    rc_pc \in { "return", "done" } =>
        \A k \in 1..3 : FLe(0, rc_value[k])


\* The caller of the call on top of the stack.
CallerFrame == rc_frames[Len(rc_frames) - 1]

\* The step of a call with depth > 0 that has intersected the world.
C17_HitOrMiss ==
    LET top == TopFrame
        n == Len(rc_frames)
        rec == world_hit(objects, top.r)
    IN  IF ~rec.some
          THEN /\ rc_pc' = "return"
               /\ rc_value' = background(top.r)
               /\ rc_frames' = rc_frames
          ELSE \E random_unit \in RandomUnitVectors, random \in RandomDoubles :
                 LET sc == scatter(Materials[rec.mat], top.r, rec,
                                   random_unit, random)
                 IN  IF sc.ok
                       THEN /\ rc_pc' = "enter"
                            /\ Len(rc_frames') = n + 1
                            /\ rc_frames'[n + 1].r = sc.scattered
                            /\ rc_frames'[n + 1].depth = top.depth - 1
                            /\ rc_frames'[n].attenuation = sc.attenuation
                            /\ rc_frames'[n].r = top.r
                            /\ rc_frames'[n].depth = top.depth
                            /\ SubSeq(rc_frames', 1, n - 1) =
                                  SubSeq(rc_frames, 1, n - 1)
                       ELSE /\ rc_pc' = "return"
                            /\ rc_value' = <<0, 0, 0>>
                            /\ rc_frames' = rc_frames

\* The step of a call whose recursive call has returned rc_value.
C17_Attenuate ==
    /\ rc_value' = << FMul(CallerFrame.attenuation[1], rc_value[1]),
                      FMul(CallerFrame.attenuation[2], rc_value[2]),
                      FMul(CallerFrame.attenuation[3], rc_value[3]) >>
    /\ rc_frames' = SubSeq(rc_frames, 1, Len(rc_frames) - 1)
    /\ rc_pc' = "return"

\* C17: a call of ray_color with depth > 0 whose ray hits returns black when
\* the material's scatter signals absorption, whatever attenuation scatter
\* wrote; when it scatters it calls ray_color on the scattered ray with
\* depth exactly depth - 1 and returns the componentwise product of the
\* attenuation and what that call returns; when its ray misses it returns
\* the background gradient without a recursive call.
C17_ScatterAbsorbMiss ==
    /\ [][(rc_pc = "enter" /\ TopFrame.depth > 0) => C17_HitOrMiss]_vars
    /\ [][(rc_pc = "return" /\ Len(rc_frames) > 1) => C17_Attenuate]_vars

\* C17's case: a call with depth > 0 scattered and its recursive call, with
\* one less depth, hit a material that absorbed after writing a nonzero
\* attenuation: that call returns black.
C17_Witness ==
    /\ rc_pc = "return"
    /\ Len(rc_frames) >= 2
    /\ CallerFrame.attenuation # Vec3_default
    /\ TopFrame.depth = CallerFrame.depth - 1
    /\ TopFrame.depth > 0
    /\ TopFrame.attenuation = Vec3_default
    /\ rc_value = Vec3_default
    /\ LET rec == world_hit(objects, TopFrame.r)
       IN  /\ rec.some
           /\ \E random_unit \in RandomUnitVectors :
                 LET sc == scatter(Materials[rec.mat], TopFrame.r, rec,
                                   random_unit, 0)
                 IN  ~sc.ok /\ sc.attenuation # Vec3_default

\* The members whose record for the ray, in ray_color's interval, is rec.
HitMembers(ray, rec) ==
    { i \in 1..Len(objects) :
        Sphere_hit(objects[i], ray, Interval_new(1, Infinity)) = rec }

\* C23: every record Sphere::hit returns, and so every record the list
\* returns to ray_color, carries the material of the sphere that was hit
\* (never None), and the unwrap of rec.mat in ray_color never panics.
C23_RecordHasMaterial ==
    /\ rc_pc # "panic"
    /\ \A k \in 1..Len(rc_frames) : \A i \in 1..Len(objects) :
          LET rec == Sphere_hit(objects[i], rc_frames[k].r,
                                Interval_new(1, Infinity))
          IN  rec.some => (rec.mat # NoMat /\ rec.mat = objects[i].mat)
    /\ \A k \in 1..Len(rc_frames) :
          LET rec == world_hit(objects, rc_frames[k].r)
          IN  rec.some =>
                /\ rec.mat # NoMat
                /\ HitMembers(rc_frames[k].r, rec) # {}
                /\ \A i \in HitMembers(rc_frames[k].r, rec) :
                      rec.mat = objects[i].mat

\* C23's case: a call of ray_color on a list of two spheres of different
\* materials has unwrapped the material of the record of the second
\* sphere, scattered with it and called itself.
C23_Witness ==
    /\ rc_pc = "enter"
    /\ Len(rc_frames) >= 2
    /\ Len(objects) = 2
    /\ objects[1].mat # objects[2].mat
    /\ world_hit(objects, CallerFrame.r).some
    /\ world_hit(objects, CallerFrame.r).mat = objects[2].mat
    /\ HitMembers(CallerFrame.r, world_hit(objects, CallerFrame.r)) = { 2 }
\* ------------------------------------------------------------------------
\* Properties of SpecRender
\* ------------------------------------------------------------------------

\* What render has printed after the header.
ColorLines == SubSeq(out, Len(header(camera)) + 1, Len(out))

\* The number of lines of a text.
LineCount(text) == Cardinality({ k \in 1..Len(text) : text[k] = "\n" })

\* How high the centre of the first pixel of row jj is above the camera,
\* measured along the configured view-up direction.
Elevation(jj) ==
    dot(sub(pixel_sample_at(camera, 0, jj, Vec3_default), camera.center),
        camera.vup)

\* The number of rows of the image that lie above row jj: 0 for the
\* topmost scanline.
ScanlineFromTop(jj) ==
    Cardinality({ other \in 0..(camera.image_height - 1) :
                    FGt(Elevation(other), Elevation(jj)) })

WrittenOfRow == Cardinality({ k \in 1..Len(emitted) : emitted[k][1] = j })

\* C6: in every interleaving of the workers, no color of a row is written
\* before every pixel of the row has been computed (while the parallel map
\* runs nothing of the row is in the output, and a write happens only when
\* every closure has returned), and the colors of a row are written in
\* increasing column order whatever the order the workers finished in: the
\* n-th write of a row writes the line of column n - 1.
C6_RowReadyThenColumnOrder ==
    /\ [](render_pc = "par" =>
            \A k \in 1..Len(emitted) : emitted[k][1] # j)
    /\ [][(render_pc # "idle" /\ out' # out) =>
            /\ \A i \in Columns : results[i].done
            /\ \A w \in Workers : task[w] = NoTask
            /\ WrittenOfRow \in Columns
            /\ emitted' = Append(emitted, <<j, WrittenOfRow>>)
            /\ out' = out \o color_line(mul(results[WrittenOfRow].color,
                                            camera.pixel_samples_scale))
         ]_vars

\* C6's case: the closure of column 1 returned before the closure of
\* column 0, the two colors differ, and both lines of the row are written.
C6_Witness ==
    /\ render_pc = "write"
    /\ finished = <<1, 0>>
    /\ results[0].color # results[1].color
    /\ WrittenOfRow = 2
    /\ emitted[Len(emitted) - 1] = <<j, 0>>
    /\ emitted[Len(emitted)] = <<j, 1>>

RECURSIVE accumulate(_, _, _, _, _, _)
\* The closure of pixel (i, jj) run alone: pixel_color and the generator
\* after n passes of its loop, begun with the generator in state first.
accumulate(self, world, i, jj, first, n) ==
    IF n = 0 THEN [value |-> Vec3_default, rng |-> first]
    ELSE LET before == accumulate(self, world, i, jj, first, n - 1)
             s == sample(self, world, i, jj, before.rng)
         IN  [value |-> add(before.value, s.value), rng |-> s.rng]

\* C7: in the parallel section each worker changes only its own accumulator
\* and its own generator (a step changes the task and generator of at most
\* one worker, and never the camera or the scene), no two workers compute
\* the same pixel, and the value of a pixel is what its closure computes
\* alone from the camera, the scene and its own draws, whatever the other
\* workers did meanwhile.
C7_WorkerExclusive ==
    /\ [](render_pc = "par" =>
            /\ \A w \in Workers : task[w] # NoTask =>
                  /\ started[task[w].i].worker = w
                  /\ \A v \in Workers \ {w} : task[v].i # task[w].i
                  /\ task[w].pixel_color =
                        accumulate(camera, objects, task[w].i, j,
                                   started[task[w].i].rng,
                                   task[w].samples).value
                  /\ rng[w] =
                        accumulate(camera, objects, task[w].i, j,
                                   started[task[w].i].rng,
                                   task[w].samples).rng
            /\ \A i \in Columns : results[i].done =>
                  results[i].color =
                     accumulate(camera, objects, i, j, started[i].rng,
                                camera.samples_per_pixel).value)
    /\ [][render_pc = "par" =>
            /\ camera' = camera
            /\ objects' = objects
            /\ materials' = materials
            /\ \A w, v \in Workers :
                  ( /\ (task'[w] # task[w] \/ rng'[w] # rng[w])
                    /\ (task'[v] # task[v] \/ rng'[v] # rng[v]) ) => w = v
            /\ \A i \in Columns :
                  results[i].done => results'[i] = results[i]
         ]_vars

\* C7's case: two workers are in the middle of two pixels of a row of a
\* scene with a sphere, each with samples taken and samples to take, and
\* their generators have moved.
C7_Witness ==
    /\ render_pc = "par"
    /\ objects # <<>>
    /\ \E w, v \in Workers :
          /\ w # v
          /\ task[w] # NoTask /\ task[v] # NoTask
          /\ task[w].samples = 1 /\ task[v].samples = 1
          /\ camera.samples_per_pixel = 2
          /\ rng[w] # started[task[w].i].rng
          /\ rng[v] # started[task[v].i].rng

\* ------------------------------------------------------------------------
\* Properties of SpecScene
\* ------------------------------------------------------------------------

\* C8: Metal::new clamps fuzz to [0, 1]: whatever f a Metal was constructed
\* with, its stored fuzz satisfies 0 <= fuzz <= 1.
C8_FuzzClamped ==
    \A k \in 1..Len(materials) :
        materials[k].kind = "Metal" =>
            /\ FLe(0, materials[k].fuzz)
            /\ FLe(materials[k].fuzz, Scale)

\* ------------------------------------------------------------------------
\* Properties of SpecWrite
\* ------------------------------------------------------------------------

\* The decimal number a text of digits spells, -1 if it is not one.
DecimalValue(text) ==
    LET digit(c) == CHOOSE d \in 0..9 : DigitChars[d + 1] = c
        value[k \in 0..Len(text)] ==
            IF k = 0 THEN 0 ELSE 10 * value[k - 1] + digit(text[k])
    IN  IF text # <<>> /\
           \A k \in 1..Len(text) : \E d \in 0..9 : DigitChars[d + 1] = text[k]
        THEN value[Len(text)] ELSE -1

\* The three numbers of a color line "r g b\n"; <<-1, -1, -1>> if the text
\* is not three fields separated by single spaces and ended by a newline.
LineFields(text) ==
    LET spaces == { k \in 1..Len(text) : text[k] = " " }
        s1 == CHOOSE k \in spaces : \A m \in spaces : k <= m
        s2 == CHOOSE k \in spaces : \A m \in spaces : m <= k
    IN  IF Cardinality(spaces) = 2 /\ text[Len(text)] = "\n"
        THEN << DecimalValue(SubSeq(text, 1, s1 - 1)),
                DecimalValue(SubSeq(text, s1 + 1, s2 - 1)),
                DecimalValue(SubSeq(text, s2 + 1, Len(text) - 1)) >>
        ELSE << -1, -1, -1 >>

\* trunc(256 * clamp(sqrt(c), 0.000, 0.999)) for a component c > 0; the
\* square root of +infinity is +infinity.
ScaledGamma(c) ==
    LET root == IF c = Infinity THEN Infinity ELSE FSqrt(c)
        clamped == IF root > 999 THEN 999 ELSE IF root < 0 THEN 0 ELSE root
    IN  (256 * clamped) \div Scale

\* The integer the contract gives for a component: 0 for a non-positive one
\* (and for NaN, which is not positive), the scaled gamma value otherwise.
Emitted(c) == IF c = NaN \/ c <= 0 THEN 0 ELSE ScaledGamma(c)

\* C9: the line write_color formats carries, for each component c of the
\* color, an integer in [0, 255]: exactly 0 for a non-positive c and
\* trunc(256 * clamp(sqrt(c), 0.000, 0.999)) otherwise, however large c is.
C9_ByteRange ==
    wc_pc = "returned" =>
        /\ LineFields(wc_str) = << Emitted(x(wc_color)), Emitted(y(wc_color)),
                                   Emitted(z(wc_color)) >>
        /\ \A k \in 1..3 : LineFields(wc_str)[k] \in 0..255

\* C9's case: a color with a negative, an interior and an infinite
\* component has been formatted as 0, 128 and 255.
C9_Witness ==
    /\ wc_pc = "returned"
    /\ wc_color = Color_new(Infinity, -250, 250)
    /\ LineFields(wc_str) = << 255, 0, 128 >>


\* C24: whenever write_color returns Ok, the complete color line is what the
\* call has delivered to the output stream (the stream ends with the line),
\* for every writer.
C24_OkMeansWholeLine ==
    (wc_pc = "returned" /\ wc_result.ok) =>
        /\ wc_result.n = Len(wc_str)
        /\ Len(out) >= Len(wc_str)
        /\ SubSeq(out, Len(out) - Len(wc_str) + 1, Len(out)) = wc_str
\* ------------------------------------------------------------------------
\* Malformed cameras
\* ------------------------------------------------------------------------

\* A configuration that would produce image_height < 1, or one whose look
\* direction has length zero.
Malformed(self) ==
    \/ FLt(FDiv(as_f64(self.image_width), self.aspect_ratio), Scale)
    \/ self.lookfrom = self.lookat

\* C10: render rejects a malformed camera at its start: it generates no ray
\* and emits no output for it.
C10_MalformedRejected ==
    Malformed(camera) =>
        /\ out = <<>>
        /\ rays = 0
        /\ render_pc \notin { "row", "par", "write", "done" }

\* ------------------------------------------------------------------------
\* Output failures in render
\* ------------------------------------------------------------------------

PublicFields ==
    { "aspect_ratio", "image_width", "samples_per_pixel", "max_depth", "vfov",
      "lookfrom", "lookat", "vup", "defocus_angle", "focus_dist" }

SameConfiguration(a, b) == \A f \in PublicFields : a[f] = b[f]

\* The camera with the configuration of self and the derived state of other.
WithDerivedOf(self, other) ==
    [f \in DOMAIN self |-> IF f \in PublicFields THEN self[f] ELSE other[f]]

\* A Camera whose derived fields hold arbitrary values, as Camera::new
\* accepts them.
Camera_junk ==
    [f \in DOMAIN Camera_default |->
        CASE f = "image_height" -> 7
          [] f = "pixel_samples_scale" -> 333
          [] f \in PublicFields -> Camera_default[f]
          [] OTHER -> Vec3_new(111, -222, NaN)]

\* C12: initialize is idempotent and its result is a function of the public
\* configuration only: the Camera a running render works on is what another
\* initialize would compute again, a render of an unchanged configuration
\* leaves the derived state the previous render left, and initialize gives
\* the same Camera whatever derived state it starts from (the defaults, the
\* previous render's, arbitrary values), for every Camera the owner holds
\* or a render starts with.
C12_InitializeIdempotent ==
    /\ render_pc \in { "row", "par", "write", "done", "panic" } =>
          /\ initialize(camera) = camera
          /\ (prev_camera.some /\ SameConfiguration(camera, prev_camera.self))
                => camera = prev_camera.self
    /\ render_pc \in { "idle", "row" } =>
          \A other \in { Camera_default, Camera_junk, prev_camera.self } :
              initialize(WithDerivedOf(camera, other)) = initialize(camera)

\* C12's case: a second render of an unchanged configuration has run
\* initialize, on a Camera whose derived state is not the default.
C12_Witness ==
    /\ render_pc = "row"
    /\ prev_camera.some
    /\ SameConfiguration(camera, prev_camera.self)
    /\ camera.pixel_delta_u # Vec3_default
    /\ camera.lookfrom # camera.lookat
    /\ initialize(camera) # initialize(Camera_default)

\* C13: every call of get_ray operates on derived state that initialize
\* computed from the configuration the Camera has at that call.
C13_GetRayAfterInitialize ==
    last_get_ray.called =>
        last_get_ray.self = initialize(last_get_ray.self)


\* C19: after initialize image_height >= 1 for every configuration: the
\* truncation of image_width / aspect_ratio when that quotient is at least
\* 1, and 1 otherwise.
C19_ImageHeightAtLeastOne ==
    render_pc # "idle" =>
      /\ camera.image_height >= 1
      /\ camera.image_height =
           IF FLe(Scale, FDiv(as_f64(camera.image_width), camera.aspect_ratio))
             THEN as_u32(FDiv(as_f64(camera.image_width), camera.aspect_ratio))
             ELSE 1
\* ------------------------------------------------------------------------
\* The header of the image stream
\* ------------------------------------------------------------------------

\* The three header lines of a plain PPM image of the camera's size:
\* "P3", "<width> <height>", "255".
PpmHeader(self) ==
    <<"P", "3", "\n">> \o Display(self.image_width) \o <<" ">> \o
    Display(self.image_height) \o <<"\n", "2", "5", "5", "\n">>

\* C15: what render has emitted begins with exactly the line P3, then the
\* line "<width> <height>", then the line 255, before any color line.
C15_HeaderExact ==
    render_pc # "idle" =>
      /\ Len(out) >= Len(PpmHeader(camera))
      /\ SubSeq(out, 1, Len(PpmHeader(camera))) = PpmHeader(camera)

\* ------------------------------------------------------------------------
\* The pixel a sample ray is generated for
\* ------------------------------------------------------------------------

\* C18: every sample ray of pixel (i, j) of a render is generated by get_ray
\* with the pixel coordinates exactly (i, j), for every image of at least
\* one column and one row and every random draw.
C18_SampleAtOwnPixel ==
    (last_get_ray.called /\ last_get_ray.pixel # <<-1, -1>>) =>
        <<last_get_ray.i, last_get_ray.j>> = last_get_ray.pixel

====
